---- MODULE Spec2Model ----
(***************************************************************************)
(* The job-application ledger of gmail-job-tracker: gmail_sync.py          *)
(* (reconciliation of confirmation / rejection emails into jobs.csv) and   *)
(* job_tracker.py (backfill of summary / skills / salary).                 *)
(*                                                                         *)
(* A Python str is modelled as a sequence of tokens (chunks of            *)
(* characters): "" is <<>>, concatenation is \o.  A cell of a pandas       *)
(* DataFrame is a str or the float NaN that read_csv produces for an       *)
(* empty field.  Cells are strings or NaN only: numeric type inference of  *)
(* read_csv is not modelled (no column of the ledger holds numbers).       *)
(***************************************************************************)
EXTENDS Integers, Sequences, FiniteSets, TLC

\* ---- bounds of the model ------------------------------------------------
MaxMsgs == 3        \* messages the Gmail searches return, all runs together
MaxRuns == 2        \* command invocations in one behaviour

\* ---- cells ----------------------------------------------------------------
NaN == <<"float('nan')">>

IsStr(c) == c # NaN

\* Series == scalar, element-wise: NaN compares unequal to everything.
CellEq(cell, s) == IsStr(cell) /\ cell = s

\* .fillna("").astype(str)
FillNa(c) == IF c = NaN THEN <<>> ELSE c

\* str.strip(): drops leading and trailing whitespace tokens.
RECURSIVE LStrip(_)
LStrip(s) == IF s # <<>> /\ Head(s) = " " THEN LStrip(Tail(s)) ELSE s

RECURSIVE RStrip(_)
RStrip(s) ==
    IF s # <<>> /\ s[Len(s)] = " " THEN RStrip(SubSeq(s, 1, Len(s) - 1)) ELSE s

Strip(s) == RStrip(LStrip(s))

IsPrefix(p, s) == Len(p) <= Len(s) /\ SubSeq(s, 1, Len(p)) = p

\* ---- the ledger file (pandas read_csv / to_csv) --------------------------
COLUMNS ==
    {"company", "role_title", "job_link", "applied_date", "status",
     "job_text", "summary", "skills", "salary"}

JOBS_CSV == "jobs.csv"
DEFAULT_INPUT == "jobs.csv"
DEFAULT_OUTPUT == "jobs_with_summaries.csv"
Paths == {JOBS_CSV, DEFAULT_OUTPUT}

NoFile == [exists |-> FALSE, cols |-> {}, rows |-> <<>>]

\* Field texts read_csv turns into NaN (keep_default_na): the empty field
\* and the NA spellings.
NaValues ==
    {<<>>, <<"NA">>, <<"N/A">>, <<"n/a">>, <<"#N/A">>, <<"NULL">>, <<"null">>,
     <<"NaN">>, <<"nan">>, <<"-NaN">>, <<"-nan">>, <<"None">>, <<"<NA>">>}

ReadCell(s) == IF s \in NaValues THEN NaN ELSE s

\* pd.read_csv(path): one row per line, the header's columns.
ReadCsv(f) ==
    [cols |-> f.cols,
     rows |-> [i \in 1..Len(f.rows) |->
                 [c \in f.cols |-> ReadCell(f.rows[i][c])]]]

\* to_csv writes NaN as the empty field (na_rep = "").
WriteCell(c) == IF c = NaN THEN <<>> ELSE c

\* df.to_csv(path, index=False): total overwrite.
ToCsv(df) ==
    [exists |-> TRUE,
     cols |-> df.cols,
     rows |-> [i \in 1..Len(df.rows) |->
                 [c \in df.cols |-> WriteCell(df.rows[i][c])]]]

\* df[col] = "": a new column of empty strings on every row.
AddColumn(df, col) ==
    [cols |-> df.cols \cup {col},
     rows |-> [i \in 1..Len(df.rows) |->
                 [c \in df.cols \cup {col} |->
                     IF c = col THEN <<>> ELSE df.rows[i][c]]]]

RECURSIVE AddColumns(_, _)
AddColumns(df, missing) ==
    IF missing = {} THEN df
    ELSE LET col == CHOOSE c \in missing : TRUE
         IN  AddColumns(AddColumn(df, col), missing \ {col})

EnsureColumns(df, wanted) == AddColumns(df, wanted \ df.cols)

EmptyDf == [cols |-> COLUMNS, rows |-> <<>>]

\* gmail_sync.load_jobs_df
load_jobs_df(f) ==
    EnsureColumns(IF f.exists THEN ReadCsv(f) ELSE EmptyDf, COLUMNS)

\* Mutation of Concat: the frame is replaced by the new row instead of being
\* extended by it.
Concat_Overwrites(df, row) ==
    [cols |-> df.cols \cup DOMAIN row,
     rows |-> <<[c \in df.cols \cup DOMAIN row |->
                    IF c \in DOMAIN row THEN row[c] ELSE NaN]>>]

\* pd.concat([df, pd.DataFrame([row])], ignore_index=True): the union of the
\* columns, NaN where a frame has no such column.
Concat(df, row) ==
    LET cols == df.cols \cup DOMAIN row
        Widen(r) == [c \in cols |-> IF c \in DOMAIN r THEN r[c] ELSE NaN]
    IN  [cols |-> cols,
         rows |-> [i \in 1..Len(df.rows) |-> Widen(df.rows[i])]
                    \o <<Widen(row)>>]

\* ---- Gmail messages ---------------------------------------------------------
\* A message (format="metadata"): the headers it carries and its snippet.  A
\* header the message lacks is outside DOMAIN headers.
Missing == <<"<no such header>">>

RawDate1 == <<"Wed, 10 Jan 2024 09:30:00 -0500">>
Garbled == <<"not a date">>

Header(name, v) == IF v = Missing THEN <<>> ELSE name :> v

Message(from, subject, date, snippet) ==
    [headers |-> Header("From", from) @@ Header("Subject", subject)
                   @@ Header("Date", date),
     snippet |-> snippet]

NoSnippet == <<>>

\* The mail the searches can return: a dated and an undated (unparseable
\* Date) message about one role, and a message with no From, Subject or
\* Date header.
Messages ==
    {Message(<<"hr@acme.example">>, <<"Software Engineer">>, RawDate1,
             <<"not moving forward">>),
     Message(<<"hr@acme.example">>, <<"Software Engineer">>, Garbled,
             NoSnippet),
     Message(Missing, Missing, Missing, <<"not moving forward">>)}

\* gmail_search: the list of messages matching the query, in retrieval order
\* (at most n of them).
Batches(n) == UNION {[1..k -> Messages] : k \in 0..n}

\* Mutation of get_header: a header the message lacks is returned as None
\* instead of "".
get_header_ReturnsNone(headers, name) ==
    IF name \in DOMAIN headers THEN headers[name] ELSE Missing

\* gmail_sync.get_header
get_header(headers, name) ==
    IF name \in DOMAIN headers THEN headers[name] ELSE <<>>

\* gmail_sync.parse_date: the ISO date of the parsed header, "" when
\* parsedate_to_datetime raises.
parse_date(date_str) ==
    IF date_str = RawDate1 THEN <<"2024-01-10">> ELSE <<>>

NewRow(company, role_title, applied_date, status, job_text) ==
    [c \in COLUMNS |->
        CASE c = "company" -> company
          [] c = "role_title" -> role_title
          [] c = "applied_date" -> applied_date
          [] c = "status" -> status
          [] c = "job_text" -> job_text
          [] OTHER -> <<>>]

Applied == <<"Applied">>
Rejected == <<"Rejected">>
REJECTION_SEP == <<"\n[Rejection snippet] ">>

Rows(d) == 1..Len(d.rows)

\* scan_confirmations, lines 166-167: rows with this role_title and date.
dup_mask(d, role_title, applied_date) ==
    {i \in Rows(d) : CellEq(d.rows[i]["role_title"], role_title)
                     /\ CellEq(d.rows[i]["applied_date"], applied_date)}

\* Variant: messages whose date did not parse are dropped.
ConfirmationStep_SkipsUndated(d, msg) ==
    LET subject == get_header(msg.headers, "Subject")
        from_header == get_header(msg.headers, "From")
        applied_date == parse_date(get_header(msg.headers, "Date"))
    IN  IF applied_date = <<>> \/ dup_mask(d, subject, applied_date) # {}
        THEN d
        ELSE Concat(d, NewRow(from_header, subject, applied_date, Applied,
                              msg.snippet))

\* scan_confirmations, one iteration of the loop over messages.
ConfirmationStep(d, msg) ==
    LET subject == get_header(msg.headers, "Subject")
        from_header == get_header(msg.headers, "From")
        applied_date == parse_date(get_header(msg.headers, "Date"))
    IN  IF dup_mask(d, subject, applied_date) # {} THEN d
        ELSE Concat(d, NewRow(from_header, subject, applied_date, Applied,
                              msg.snippet))

\* scan_confirmations: the whole loop.
RECURSIVE ScanConfirmations(_, _)
ScanConfirmations(d, batch) ==
    IF batch = <<>> THEN d
    ELSE ScanConfirmations(ConfirmationStep(d, Head(batch)), Tail(batch))

\* scan_rejections, line 220: rows with this role_title.
mask(d, subject) == {i \in Rows(d) : CellEq(d.rows[i]["role_title"], subject)}

\* Variant: an unmatched rejection is inserted with the status of a
\* confirmation.
RejectionStep_InsertsApplied(d, msg) ==
    LET subject == get_header(msg.headers, "Subject")
        from_header == get_header(msg.headers, "From")
        rejection_date == parse_date(get_header(msg.headers, "Date"))
        hit == mask(d, subject)
    IN  IF hit # {}
        THEN [d EXCEPT !.rows =
                [i \in Rows(d) |->
                    IF i \in hit
                    THEN [d.rows[i] EXCEPT
                            !["status"] = Rejected,
                            !["job_text"] = FillNa(@) \o REJECTION_SEP
                                              \o msg.snippet]
                    ELSE d.rows[i]]]
        ELSE Concat(d, NewRow(from_header, subject, rejection_date, Applied,
                              msg.snippet))

\* Variant: no fillna("") before the append, so a NaN job_text stays NaN.
RejectionStep_NoFillNa(d, msg) ==
    LET subject == get_header(msg.headers, "Subject")
        from_header == get_header(msg.headers, "From")
        rejection_date == parse_date(get_header(msg.headers, "Date"))
        hit == mask(d, subject)
    IN  IF hit # {}
        THEN [d EXCEPT !.rows =
                [i \in Rows(d) |->
                    IF i \in hit
                    THEN [d.rows[i] EXCEPT
                            !["status"] = Rejected,
                            !["job_text"] =
                                IF @ = NaN THEN NaN
                                ELSE @ \o REJECTION_SEP \o msg.snippet]
                    ELSE d.rows[i]]]
        ELSE Concat(d, NewRow(from_header, subject, rejection_date, Rejected,
                              msg.snippet))

\* Mutation of RejectionStep: a matched row also gets the date of the
\* rejection as its applied_date.
RejectionStep_StampsDate(d, msg) ==
    LET subject == get_header(msg.headers, "Subject")
        from_header == get_header(msg.headers, "From")
        rejection_date == parse_date(get_header(msg.headers, "Date"))
        hit == mask(d, subject)
    IN  IF hit # {}
        THEN [d EXCEPT !.rows =
                [i \in Rows(d) |->
                    IF i \in hit
                    THEN [d.rows[i] EXCEPT
                            !["status"] = Rejected,
                            !["applied_date"] = rejection_date,
                            !["job_text"] = FillNa(@) \o REJECTION_SEP
                                              \o msg.snippet]
                    ELSE d.rows[i]]]
        ELSE Concat(d, NewRow(from_header, subject, rejection_date, Rejected,
                              msg.snippet))

\* scan_rejections, one iteration of the loop over messages.
RejectionStep(d, msg) ==
    LET subject == get_header(msg.headers, "Subject")
        from_header == get_header(msg.headers, "From")
        rejection_date == parse_date(get_header(msg.headers, "Date"))
        hit == mask(d, subject)
    IN  IF hit # {}
        THEN [d EXCEPT !.rows =
                [i \in Rows(d) |->
                    IF i \in hit
                    THEN [d.rows[i] EXCEPT
                            !["status"] = Rejected,
                            !["job_text"] = FillNa(@) \o REJECTION_SEP
                                              \o msg.snippet]
                    ELSE d.rows[i]]]
        ELSE Concat(d, NewRow(from_header, subject, rejection_date, Rejected,
                              msg.snippet))

\* ---- the summarization collaborator ----------------------------------------
\* What summarize_job does for one row: it raises (API error, no parsed
\* JSON), or returns a dict.  A dict may lack keys; "skills" is a list (of
\* strings, or holding an item that is no string) or a scalar.
StrItem(s) == [isstr |-> TRUE, text |-> s]
OtherItem(s) == [isstr |-> FALSE, text |-> s]

SkillsList(items) == [islist |-> TRUE, items |-> items, text |-> <<>>]
SkillsScalar(s) == [islist |-> FALSE, items |-> <<>>, text |-> s]

SummaryText == <<"Builds data pipelines.">>
SalaryText == <<"unknown">>

SkillsValues ==
    {SkillsList(<<StrItem(<<"Python">>), StrItem(<<"SQL">>)>>),
     SkillsList(<<StrItem(<<"Python">>), OtherItem(<<"3">>)>>),
     SkillsScalar(<<"Python; SQL">>)}

Raises == [raised |-> TRUE, result |-> <<>>]
Returns(dict) == [raised |-> FALSE, result |-> dict]

Results ==
    {("summary" :> SummaryText) @@ ("skills" :> sk) @@ ("salary" :> SalaryText)
        : sk \in SkillsValues}
    \cup {"salary" :> SalaryText}

Outcomes == {Raises} \cup {Returns(r) : r \in Results}

\* dict.get(key, default)
Get(dict, key, default) == IF key \in DOMAIN dict THEN dict[key] ELSE default

\* ", ".join(items): defined when every item is a str.
Joinable(items) == \A i \in 1..Len(items) : items[i].isstr

RECURSIVE Join(_)
Join(items) ==
    IF items = <<>> THEN <<>>
    ELSE IF Len(items) = 1 THEN items[1].text
    ELSE items[1].text \o <<", ">> \o Join(Tail(items))

\* Variant: no row is ever skipped.
HasSummary_Never(row) == FALSE

\* job_tracker.process_jobs, line 97: the row is skipped.
HasSummary(row) ==
    IsStr(Get(row, "summary", <<>>)) /\ Strip(row["summary"]) # <<>>

SetCell(d, i, col, v) == [d EXCEPT !.rows[i][col] = v]

\* job_tracker.process_jobs, the body of the try for row i: the frame after
\* it, and whether the except branch was taken.
TryRow(d, i, outcome) ==
    IF outcome.raised THEN [df |-> d, failed |-> TRUE]
    ELSE
      LET result == outcome.result
          d1 == SetCell(d, i, "summary", Get(result, "summary", <<>>))
          skills_list == Get(result, "skills", SkillsList(<<>>))
      IN  IF skills_list.islist /\ ~Joinable(skills_list.items)
          THEN [df |-> d1, failed |-> TRUE]
          ELSE
            LET d2 == SetCell(d1, i, "skills",
                              IF skills_list.islist
                              THEN Join(skills_list.items)
                              ELSE skills_list.text)
                d3 == SetCell(d2, i, "salary", Get(result, "salary", <<>>))
            IN  [df |-> d3, failed |-> FALSE]

\* job_tracker.process_jobs, lines 83-91.
read_jobs(f) == EnsureColumns(ReadCsv(f), {"summary", "skills", "salary"})

\* ---- state -----------------------------------------------------------------
VARIABLES
    files,        \* path -> the CSV file stored there (NoFile if none)
    pc,           \* position of the running command, "idle" between commands
    mode,         \* gmail_sync: args.mode
    df,           \* the DataFrame of the running command
    messages,     \* scan_*: the list gmail_search returned
    m,            \* scan_*: index of the next message of the loop
    argv,         \* job_tracker: the options given on the command line
    input_path,   \* job_tracker: --input
    output_path,  \* job_tracker: --output
    idx,          \* process_jobs: index of the next row of the loop
    updated,      \* process_jobs: the counter reported at the end
    errors,       \* process_jobs: rows reported "Error summarizing row"
    calls,        \* process_jobs: summarize_job calls made in this run
    runs,         \* commands started so far
    fetched       \* mail collaborator: messages its searches returned so far

vars ==
    <<files, pc, mode, df, messages, m, argv, input_path, output_path, idx,
      updated, errors, calls, runs, fetched>>

syncVars == <<mode, messages, m>>
enrichVars == <<argv, input_path, output_path, idx, updated, errors, calls>>

Modes == {"scan-confirmations", "scan-rejections", "scan-all"}

\* ---- ledgers found on disk when the first command starts --------------------
Row(company, title, date, status, text, summary, skills, salary) ==
    [c \in COLUMNS |->
        CASE c = "company" -> company
          [] c = "role_title" -> title
          [] c = "job_link" -> <<>>
          [] c = "applied_date" -> date
          [] c = "status" -> status
          [] c = "job_text" -> text
          [] c = "summary" -> summary
          [] c = "skills" -> skills
          [] c = "salary" -> salary]

File(cols, rows) ==
    [exists |-> TRUE,
     cols |-> cols,
     rows |-> [i \in 1..Len(rows) |-> [c \in cols |-> rows[i][c]]]]

AppliedRow ==
    Row(<<"hr@acme.example">>, <<"Software Engineer">>, <<"2024-01-10">>,
        Applied, <<"Thanks for applying">>, <<>>, <<>>, <<>>)

EnrichedRow ==
    Row(<<"jobs@initech.example">>, <<"Data Analyst">>, <<"2023-12-01">>,
        Rejected, <<"We regret to inform you">>, <<"Reports on sales data.">>,
        <<"Excel, SQL">>, <<"$30/hr">>)

HalfFilledRow ==
    Row(<<"hr@acme.example">>, <<"Software Engineer">>, <<>>, Applied,
        <<>>, <<" ">>, <<"Go">>, <<"$95k">>)

UntitledRejectedRow ==
    Row(<<>>, <<>>, <<>>, Rejected, <<"not moving forward">>, <<>>, <<>>,
        <<>>)

InitialLedgers ==
    {NoFile,
     File(COLUMNS, <<AppliedRow, UntitledRejectedRow>>),
     File(COLUMNS, <<EnrichedRow, HalfFilledRow>>),
     File(COLUMNS \ {"job_link", "salary"}, <<EnrichedRow>>)}

Init ==
    /\ files \in {[p \in Paths |-> IF p = JOBS_CSV THEN f ELSE NoFile]
                    : f \in InitialLedgers}
    /\ runs = 0
    /\ fetched = 0
    /\ pc = "idle"
    /\ mode = "scan-all"
    /\ df = EmptyDf
    /\ messages = <<>>
    /\ m = 1
    /\ argv = <<>>
    /\ input_path = DEFAULT_INPUT
    /\ output_path = DEFAULT_OUTPUT
    /\ idx = 1
    /\ updated = 0
    /\ errors = {}
    /\ calls = 0

\* The process ends: nothing of its memory survives, only the files do.
Exit ==
    /\ pc' = "idle"
    /\ mode' = "scan-all"
    /\ df' = EmptyDf
    /\ messages' = <<>>
    /\ m' = 1
    /\ argv' = <<>>
    /\ input_path' = DEFAULT_INPUT
    /\ output_path' = DEFAULT_OUTPUT
    /\ idx' = 1
    /\ updated' = 0
    /\ errors' = {}
    /\ calls' = 0
    /\ UNCHANGED <<runs, fetched>>

\* ---- gmail_sync -------------------------------------------------------------
\* main, lines 246-259: parse the mode, load the ledger.
SyncStart(md) ==
    /\ pc = "idle"
    /\ runs < MaxRuns
    /\ runs' = runs + 1
    /\ mode' = md
    /\ df' = load_jobs_df(files[JOBS_CSV])
    /\ pc' = IF md = "scan-rejections" THEN "rej_search" ELSE "conf_search"
    /\ messages' = <<>>
    /\ m' = 1
    /\ UNCHANGED <<files, enrichVars, fetched>>

\* scan_confirmations, lines 142-143.
ConfSearch(batch) ==
    /\ fetched' = fetched + Len(batch)
    /\ pc = "conf_search"
    /\ messages' = batch
    /\ m' = 1
    /\ pc' = "conf_loop"
    /\ UNCHANGED <<files, df, mode, enrichVars, runs>>

\* scan_confirmations, lines 145-182: one message.
ConfMessage ==
    /\ pc = "conf_loop"
    /\ m <= Len(messages)
    /\ df' = ConfirmationStep(df, messages[m])
    /\ m' = m + 1
    /\ UNCHANGED <<files, pc, mode, messages, enrichVars, runs, fetched>>

\* Mutation of ConfReturn: scan_confirmations saves the ledger itself when it
\* returns.
ConfReturn_Saves ==
    /\ pc = "conf_loop"
    /\ m > Len(messages)
    /\ pc' = "conf_done"
    /\ files' = [files EXCEPT ![JOBS_CSV] = ToCsv(df)]
    /\ UNCHANGED <<df, mode, messages, m, enrichVars, runs, fetched>>

\* scan_confirmations, line 184, back in main at line 261.
ConfReturn ==
    /\ pc = "conf_loop"
    /\ m > Len(messages)
    /\ pc' = "conf_done"
    /\ UNCHANGED <<files, df, mode, messages, m, enrichVars, runs, fetched>>

\* Mutation of ConfThenRej: the rejection pass is given a freshly loaded
\* ledger instead of the frame the confirmation pass returned.
ConfThenRej_Reloads ==
    /\ pc = "conf_done"
    /\ mode = "scan-all"
    /\ pc' = "rej_search"
    /\ df' = load_jobs_df(files[JOBS_CSV])
    /\ UNCHANGED <<files, mode, messages, m, enrichVars, runs, fetched>>

\* main, lines 261-262: the rejection pass of scan-all.
ConfThenRej ==
    /\ pc = "conf_done"
    /\ mode = "scan-all"
    /\ pc' = "rej_search"
    /\ UNCHANGED <<files, df, mode, messages, m, enrichVars, runs, fetched>>

\* scan_rejections, lines 200-201.
RejSearch(batch) ==
    /\ fetched' = fetched + Len(batch)
    /\ pc = "rej_search"
    /\ messages' = batch
    /\ m' = 1
    /\ pc' = "rej_loop"
    /\ UNCHANGED <<files, df, mode, enrichVars, runs>>

\* scan_rejections, lines 203-241: one message.
RejMessage ==
    /\ pc = "rej_loop"
    /\ m <= Len(messages)
    /\ df' = RejectionStep(df, messages[m])
    /\ m' = m + 1
    /\ UNCHANGED <<files, pc, mode, messages, enrichVars, runs, fetched>>

\* scan_rejections, line 243.
RejReturn ==
    /\ pc = "rej_loop"
    /\ m > Len(messages)
    /\ pc' = "rej_done"
    /\ UNCHANGED <<files, df, mode, messages, m, enrichVars, runs, fetched>>

\* main, line 264: save_jobs_df, and the process ends.
SyncSave ==
    /\ \/ pc = "conf_done" /\ mode = "scan-confirmations"
       \/ pc = "rej_done"
    /\ files' = [files EXCEPT ![JOBS_CSV] = ToCsv(df)]
    /\ Exit

\* ---- job_tracker ------------------------------------------------------------
\* main, lines 123-138: the command line.  Each of --input and --output is
\* either absent or given; a given path is the one that is not the option's
\* default (giving the default explicitly runs as giving nothing).
Argvs ==
    { <<>>,
      "input" :> DEFAULT_OUTPUT,
      "output" :> DEFAULT_INPUT,
      ("input" :> DEFAULT_OUTPUT) @@ ("output" :> DEFAULT_INPUT) }

\* main and process_jobs, lines 123-93: parse the arguments, the input must
\* exist; read it.
EnrichStart(args) ==
    /\ pc = "idle"
    /\ runs < MaxRuns
    /\ files[Get(args, "input", DEFAULT_INPUT)].exists
    /\ runs' = runs + 1
    /\ argv' = args
    /\ input_path' = Get(args, "input", DEFAULT_INPUT)
    /\ output_path' = Get(args, "output", DEFAULT_OUTPUT)
    /\ df' = read_jobs(files[Get(args, "input", DEFAULT_INPUT)])
    /\ idx' = 1
    /\ updated' = 0
    /\ errors' = {}
    /\ calls' = 0
    /\ pc' = "backfill"
    /\ UNCHANGED <<files, syncVars, fetched>>

\* process_jobs, lines 95-116: one row.
BackfillRow(outcome) ==
    /\ pc = "backfill"
    /\ idx <= Len(df.rows)
    /\ idx' = idx + 1
    /\ IF HasSummary(df.rows[idx])
       THEN UNCHANGED <<df, updated, errors, calls>>
       ELSE LET try == TryRow(df, idx, outcome)
            IN  /\ calls' = calls + 1
                /\ df' = try.df
                /\ updated' = IF try.failed THEN updated ELSE updated + 1
                /\ errors' = IF try.failed THEN errors \cup {idx} ELSE errors
    /\ UNCHANGED <<files, pc, argv, input_path, output_path, syncVars, runs, fetched>>

\* process_jobs, lines 118-120: write the output, and the process ends.
BackfillSave ==
    /\ pc = "backfill"
    /\ idx > Len(df.rows)
    /\ files' = [files EXCEPT ![output_path] = ToCsv(df)]
    /\ Exit

\* ---- either command -----------------------------------------------------------
\* An uncaught exception (the mail collaborator fails) or an external kill:
\* the process ends before its write.
Abort ==
    /\ pc # "idle"
    /\ UNCHANGED files
    /\ Exit

NextSync ==
    \/ \E md \in Modes : SyncStart(md)
    \/ \E batch \in Batches(MaxMsgs - fetched) : ConfSearch(batch)
    \/ ConfMessage
    \/ ConfReturn
    \/ ConfThenRej
    \/ \E batch \in Batches(MaxMsgs - fetched) : RejSearch(batch)
    \/ RejMessage
    \/ RejReturn
    \/ SyncSave
    \/ Abort

NextEnrich ==
    \/ \E args \in Argvs : EnrichStart(args)
    \/ \E outcome \in Outcomes : BackfillRow(outcome)
    \/ BackfillSave
    \/ Abort

Next ==
    \/ \E md \in Modes : SyncStart(md)
    \/ \E batch \in Batches(MaxMsgs - fetched) : ConfSearch(batch)
    \/ ConfMessage
    \/ ConfReturn
    \/ ConfThenRej
    \/ \E batch \in Batches(MaxMsgs - fetched) : RejSearch(batch)
    \/ RejMessage
    \/ RejReturn
    \/ SyncSave
    \/ \E args \in Argvs : EnrichStart(args)
    \/ \E outcome \in Outcomes : BackfillRow(outcome)
    \/ BackfillSave
    \/ Abort

Spec == Init /\ [][Next]_vars

\* The reconciliation command alone, and the enrichment command alone.
SpecSync == Init /\ [][NextSync]_vars
SpecEnrich == Init /\ [][NextEnrich]_vars

\* ---- claims ----------------------------------------------------------------
\* The confirmation pass has just returned: df is its result on `messages`.
ConfPassDone == pc = "conf_done"

\* A second confirmation pass over the same messages, on the frame in memory.
C1_SecondPassInMemory ==
    ConfPassDone => ScanConfirmations(df, messages) = df

\* C1: idempotence of confirmation ingestion.  Running the confirmation pass
\* again on the same messages yields the same ledger as running it once, on
\* the frame in memory and in a later run that loads the ledger this run
\* persisted.
C1_ConfirmationIdempotent ==
    ConfPassDone =>
        LET saved == ToCsv(df)
        IN  /\ ScanConfirmations(df, messages) = df
            /\ ToCsv(ScanConfirmations(load_jobs_df(saved), messages)) = saved

\* ---- claims about the backfill ------------------------------------------------
ENRICHMENT == {"summary", "skills", "salary"}

\* The frame the running enrichment command read: its input file is not
\* written before the loop ends.
Loaded == read_jobs(files[input_path])

InBackfill == pc = "backfill"
BackfillDone == pc = "backfill" /\ idx > Len(df.rows)

\* A summary that is not empty after trimming whitespace.
Filled(cell) == IsStr(cell) /\ Strip(cell) # <<>>

\* A cell that holds a non-empty string.
NonEmpty(cell) == IsStr(cell) /\ cell # <<>>

SameEnrichment(r1, r2) == \A f \in ENRICHMENT : r1[f] = r2[f]

\* C2: on a summarizer failure the record is left untouched.  When the
\* summarize step of a row fails (the row is reported in errors), the row's
\* summary, skills and salary are what they were, the row is still eligible,
\* and the loop goes on to the next row.
C2_FailureLeavesRecordUntouched ==
    [][(InBackfill /\ pc' = "backfill" /\ idx \in errors')
         => /\ SameEnrichment(df'.rows[idx], df.rows[idx])
            /\ ~Filled(df'.rows[idx]["summary"])
            /\ idx' = idx + 1]_vars

C4_NonEmptyFieldKept ==
    InBackfill =>
        \A i \in Rows(df) : \A f \in ENRICHMENT :
            NonEmpty(Loaded.rows[i][f]) => df.rows[i][f] = Loaded.rows[i][f]

\* C5: partial-failure isolation.  With N eligible rows of which the
\* summarizer failed for k, at the end of the pass exactly N - k of them have
\* a non-empty summary, the reported count is N - k, and every failed row
\* is still eligible.
C5_PartialFailureIsolation ==
    BackfillDone =>
        LET eligible == {i \in Rows(df) : ~Filled(Loaded.rows[i]["summary"])}
            N == Cardinality(eligible)
            k == Cardinality(errors)
        IN  /\ Cardinality({i \in eligible : NonEmpty(df.rows[i]["summary"])})
                 = N - k
            /\ updated = N - k
            /\ \A i \in errors : ~Filled(df.rows[i]["summary"])

\* C6: a backfill rerun is idempotent.  When a pass ends with no failed call,
\* the same command run again (same --input and --output) finds no eligible
\* row, so it makes no summarizer call and reports 0, and it writes the
\* output file as it already is.
C6_RerunIdempotent ==
    (BackfillDone /\ errors = {}) =>
        LET written == [files EXCEPT ![output_path] = ToCsv(df)]
            again == read_jobs(written[input_path])
        IN  /\ \A i \in Rows(again) : Filled(again.rows[i]["summary"])
            /\ ToCsv(again) = written[output_path]

\* ---- claims about the reconciliation ------------------------------------------
Subject(msg) == get_header(msg.headers, "Subject")
Sender(msg) == get_header(msg.headers, "From")

\* The text a cell stands for in the ledger: NaN is the empty field.
Text(cell) == FillNa(cell)

\* A step of the reconciliation command that stays inside the process.
InSync == pc \in {"conf_search", "conf_loop", "conf_done", "rej_search",
                  "rej_loop", "rej_done"}
SyncStep == InSync /\ pc' # "idle"

\* The step that processes the rejection message messages[m].
RejectionEvent == pc = "rej_loop" /\ m <= Len(messages) /\ pc' = "rej_loop"

\* Rows the rejection of `subject` is about: the ledger's role_title is the
\* subject (an empty role_title is an empty field of the file).
SameTitle(d, subject) ==
    {i \in Rows(d) : Text(d.rows[i]["role_title"]) = subject}

\* C7: the rejection transition is monotonic.  A row whose status is
\* "Rejected" keeps that status in every later step of a command and through
\* save and load; a further rejection event with the same role_title appends
\* one more snippet line to its job_text and leaves it "Rejected".
C7_RejectedIsMonotonic ==
    [][/\ (pc # "idle" /\ pc' # "idle") =>
            \A i \in Rows(df) :
                df.rows[i]["status"] = Rejected
                   => i \in Rows(df') /\ df'.rows[i]["status"] = Rejected
       /\ (pc # "idle" /\ files' # files) =>
            \A p \in Paths : \A i \in Rows(df) :
                (files'[p] # files[p] /\ df.rows[i]["status"] = Rejected)
                   => files'[p].rows[i]["status"] = Rejected
       /\ (pc = "idle" /\ pc' # "idle") =>
            LET f == files[IF pc' = "backfill" THEN input_path' ELSE JOBS_CSV]
            IN  \A i \in 1..Len(f.rows) :
                    ("status" \in f.cols /\ f.rows[i]["status"] = Rejected)
                       => df'.rows[i]["status"] = Rejected
       /\ RejectionEvent =>
            \A i \in SameTitle(df, Subject(messages[m])) :
                df.rows[i]["status"] = Rejected
                   => /\ df'.rows[i]["status"] = Rejected
                      /\ df'.rows[i]["job_text"] =
                            Text(df.rows[i]["job_text"]) \o REJECTION_SEP
                               \o messages[m].snippet]_vars

\* C8: a no-match rejection always inserts.  When no row has the event's
\* subject as role_title, the ledger grows by exactly one row, which has
\* role_title = subject, company = sender, status "Rejected", job_text =
\* snippet and empty job_link, summary, skills and salary; the earlier rows
\* are unchanged.
C8_NoMatchRejectionInserts ==
    [][(RejectionEvent
          /\ \A i \in Rows(df) : df.rows[i]["role_title"] # Subject(messages[m]))
         => LET msg == messages[m]
                n == Len(df.rows)
                new == df'.rows[n + 1]
            IN  /\ Len(df'.rows) = n + 1
                /\ new["role_title"] = Subject(msg)
                /\ new["company"] = Sender(msg)
                /\ new["status"] = Rejected
                /\ new["job_text"] = msg.snippet
                /\ \A c \in {"job_link", "summary", "skills", "salary"} :
                      new[c] = <<>>
                /\ \A i \in 1..n : df'.rows[i] = df.rows[i]]_vars

\* C8 witness: the first message of a rejection pass matched no row of a
\* non-empty ledger and was inserted as its last row.
C8_Witness ==
    /\ pc = "rej_loop"
    /\ mode = "scan-rejections"
    /\ m = 2
    /\ Len(df.rows) >= 2
    /\ Len(df.rows) = Len(load_jobs_df(files[JOBS_CSV]).rows) + 1
    /\ df.rows[Len(df.rows)]["status"] = Rejected
    /\ df.rows[Len(df.rows)]["role_title"] = Subject(messages[1])

\* C9: every email event leaves a trace.  For every message a pass has
\* processed, dated or undated, the ledger holds a row whose role_title is
\* the message's subject; in particular when the pass completes.
C9_EveryEventLeavesTrace ==
    pc \in {"conf_loop", "conf_done", "rej_loop", "rej_done"} =>
        \A k \in 1..(m - 1) :
            \E i \in Rows(df) : df.rows[i]["role_title"] = Subject(messages[k])

\* C9 witness: a both-passes run has completed its rejection pass over two
\* messages, one of them with no Subject and no Date.
C9_Witness ==
    /\ pc = "rej_done"
    /\ mode = "scan-all"
    /\ Len(messages) >= 2
    /\ \E k \in 1..Len(messages) : DOMAIN messages[k].headers = {}

C11_ManyMatchRejectsAll ==
    [][(RejectionEvent
          /\ Cardinality(SameTitle(df, Subject(messages[m]))) >= 2)
         => /\ Len(df'.rows) = Len(df.rows)
            /\ \A i \in SameTitle(df, Subject(messages[m])) :
                  /\ df'.rows[i]["status"] = Rejected
                  /\ df'.rows[i]["job_text"] =
                        Text(df.rows[i]["job_text"]) \o REJECTION_SEP
                           \o messages[m].snippet]_vars

\* The step that processes the confirmation message messages[m].
ConfirmationEvent == pc = "conf_loop" /\ m <= Len(messages) /\ pc' = "conf_loop"

AppliedDate(msg) == parse_date(get_header(msg.headers, "Date"))

\* Rows holding the de-duplication key (role_title, applied_date) as the
\* ledger's text (an empty field is the empty string).
SameKey(d, role_title, applied_date) ==
    {i \in Rows(d) : /\ Text(d.rows[i]["role_title"]) = role_title
                     /\ Text(d.rows[i]["applied_date"]) = applied_date}

\* C12: the confirmation duplicate check covers the empty-date case.  A
\* confirmation event whose (role_title, applied_date) pair is the pair of
\* some row of the current ledger, the pair with an empty applied_date
\* included, is discarded: the ledger is left exactly as it was.
C12_DuplicateConfirmationDiscarded ==
    [][(ConfirmationEvent
          /\ SameKey(df, Subject(messages[m]), AppliedDate(messages[m])) # {})
         => df' = df]_vars

\* The columns that identify a record.
IDENTITY == {"company", "role_title", "applied_date"}

\* Row i of `after` is row i of `before` as far as the identity columns go,
\* read as the ledger's text.
SameRecord(before, after, i) ==
    /\ i <= Len(after)
    /\ \A c \in IDENTITY \cap DOMAIN before[i] :
          c \in DOMAIN after[i] /\ Text(after[i][c]) = Text(before[i][c])

\* C13: records are never deleted.  Through every load, every step of a
\* confirmation, rejection or backfill pass and every save, the number of
\* rows never decreases and every row is still there with the same company,
\* role_title and applied_date.
C13_RecordsNeverDeleted ==
    [][/\ (pc = "idle" /\ pc' # "idle") =>
            LET f == files[IF pc' = "backfill" THEN input_path' ELSE JOBS_CSV]
            IN  \A i \in 1..Len(f.rows) : SameRecord(f.rows, df'.rows, i)
       /\ (pc # "idle" /\ pc' # "idle") =>
            /\ Len(df'.rows) >= Len(df.rows)
            /\ \A i \in Rows(df) :
                  /\ SameRecord(df.rows, df'.rows, i)
                  /\ \A c \in IDENTITY : df'.rows[i][c] = df.rows[i][c]
       /\ (pc # "idle" /\ files' # files) =>
            LET out == IF pc = "backfill" THEN output_path ELSE JOBS_CSV
            IN  /\ \A p \in Paths \ {out} : files'[p] = files[p]
                /\ \A i \in Rows(df) :
                      SameRecord(df.rows, files'[out].rows, i)
                /\ InSync =>
                      \A i \in 1..Len(files[out].rows) :
                          SameRecord(files[out].rows, files'[out].rows, i)]_vars

\* C13 witness: a backfill pass has gone through a ledger that reconciliation
\* had extended and in which it had rejected a record.
C13_Witness ==
    /\ pc = "backfill"
    /\ idx > Len(df.rows)
    /\ calls >= 1
    /\ Len(df.rows) >= 3
    /\ \E i \in Rows(df) : df.rows[i]["status"] = Rejected
    /\ \E i \in Rows(df) : df.rows[i]["status"] = Applied

\* Every pass the mode selects has returned: main is at line 264.
PassesCompleted ==
    \/ pc = "conf_done" /\ mode = "scan-confirmations"
    \/ pc = "rej_done"

\* C14: the persisted ledger is written once, at the end of a reconciliation
\* run.  No step of the run changes a file before every selected pass has
\* completed; the one step that writes jobs.csv is the last step of the
\* process, and a run that fails or is terminated during a pass (the
\* rejection pass of a both-passes run included) ends with every file as it
\* was when the ledger was loaded.
C14_PersistedOnceAtTheEnd ==
    [][InSync =>
          /\ files' # files =>
                /\ PassesCompleted
                /\ pc' = "idle"
                /\ files' = [files EXCEPT ![JOBS_CSV] = ToCsv(df)]
          /\ ~PassesCompleted => files' = files]_vars

\* C14 witness: the rejection pass of a both-passes run is under way, the
\* confirmation pass has inserted a record and a rejection has been applied,
\* and jobs.csv still holds the ledger that was loaded.
C14_Witness ==
    /\ mode = "scan-all"
    /\ pc = "rej_loop"
    /\ m > 1
    /\ Len(df.rows) > Len(files[JOBS_CSV].rows)
    /\ ToCsv(df) # files[JOBS_CSV]
    /\ \E i \in Rows(df) : df.rows[i]["status"] = Applied /\ i > Len(files[JOBS_CSV].rows)

\* The command has loaded the ledger and has not processed anything yet.
JustLoaded ==
    \/ pc = "conf_search"
    \/ pc = "rej_search" /\ mode = "scan-rejections"
    \/ pc = "backfill" /\ idx = 1

\* The file the running command loaded.
LoadedFile == files[IF pc = "backfill" THEN input_path ELSE JOBS_CSV]

\* C15: schema completion happens on every load.  After either command has
\* loaded a ledger, the frame has all nine columns, and a column the file
\* did not have holds the empty string in every row.
C15_SchemaCompleteOnLoad ==
    JustLoaded =>
        /\ COLUMNS \subseteq df.cols
        /\ \A c \in COLUMNS \ LoadedFile.cols :
              \A i \in Rows(df) : c \in df.cols /\ df.rows[i][c] = <<>>

\* C16: the enrichment command works in place by default.  Run with neither
\* --input nor --output, it persists the result to the file it loaded the
\* ledger from.
C16_DefaultsToInPlace ==
    (pc = "backfill" /\ DOMAIN argv = {}) => output_path = input_path

\* What an event carries for a header: its value, "" when the message has no
\* such header; and for its date: the ISO date, "" when the Date header is
\* missing or cannot be parsed.
HeaderOrEmpty(msg, name) ==
    IF name \in DOMAIN msg.headers THEN msg.headers[name] ELSE <<>>
DateOrEmpty(msg) ==
    IF HeaderOrEmpty(msg, "Date") = RawDate1 THEN <<"2024-01-10">> ELSE <<>>

\* C17: data-quality problems never abort a reconciliation pass.  Whatever
\* headers a message has (no Subject, no From, no Date, a Date that cannot
\* be parsed), the step that processes it is enabled and goes on to the next
\* message of the batch; a record it inserts carries the message's values
\* with the empty string for what is missing; and a pass returns only after
\* the last message of the batch.
C17_BadDataNeverAborts ==
    [][/\ (pc = "conf_loop" /\ m <= Len(messages)) => ENABLED ConfMessage
       /\ (pc = "rej_loop" /\ m <= Len(messages)) => ENABLED RejMessage
       /\ (ConfirmationEvent \/ RejectionEvent) =>
            LET msg == messages[m]
                n == Len(df.rows)
            IN  /\ m' = m + 1
                /\ messages' = messages
                /\ Len(df'.rows) \in {n, n + 1}
                /\ Len(df'.rows) = n + 1 =>
                      /\ df'.rows[n + 1]["role_title"] =
                            HeaderOrEmpty(msg, "Subject")
                      /\ df'.rows[n + 1]["company"] = HeaderOrEmpty(msg, "From")
                      /\ df'.rows[n + 1]["applied_date"] = DateOrEmpty(msg)
                /\ \E i \in Rows(df') :
                      df'.rows[i]["role_title"] = HeaderOrEmpty(msg, "Subject")
       /\ (pc \in {"conf_loop", "rej_loop"}
             /\ pc' \in {"conf_done", "rej_done"}) => m > Len(messages)]_vars

\* C17 witness: a confirmation pass has returned after a batch whose first
\* message had no header at all; that message was inserted with empty
\* company, role_title and applied_date, and the next message, whose Date
\* cannot be parsed, was inserted with an empty applied_date.
C17_Witness ==
    /\ pc = "conf_done"
    /\ Len(messages) >= 2
    /\ DOMAIN messages[1].headers = {}
    /\ HeaderOrEmpty(messages[2], "Date") = Garbled
    /\ \E i \in Rows(df) :
          /\ df.rows[i]["role_title"] = <<>>
          /\ df.rows[i]["company"] = <<>>
          /\ df.rows[i]["applied_date"] = <<>>
          /\ i < Len(df.rows)
          /\ df.rows[i + 1]["role_title"] = HeaderOrEmpty(messages[2], "Subject")
          /\ df.rows[i + 1]["applied_date"] = <<>>

\* Positions of main in the confirmation pass and in the rejection pass.
InConfPass == pc \in {"conf_search", "conf_loop", "conf_done"}
InRejPass == pc \in {"rej_search", "rej_loop", "rej_done"}

\* Rows the running command has inserted: jobs.csv is as it was loaded.
InsertedThisRun(d) == {i \in Rows(d) : i > Len(files[JOBS_CSV].rows)}

\* C18: the order of a both-passes run.  The ledger is loaded first (the
\* first step of the run), the confirmation pass comes first and no
\* confirmation is processed once the rejection pass has begun, the
\* rejection pass continues with the frame the confirmation pass returned,
\* and jobs.csv is written only by the last step, after the rejection pass.
\* Hence a rejection whose subject is the role_title of a record inserted
\* earlier in the same run marks that record "Rejected" with the snippet
\* appended and inserts nothing.
C18_BothPassesOrder ==
    [][/\ (pc = "idle" /\ mode' = "scan-all" /\ pc' # "idle") =>
            /\ pc' = "conf_search"
            /\ df' = load_jobs_df(files[JOBS_CSV])
       /\ (mode = "scan-all" /\ InRejPass) => ~InConfPass'
       /\ (mode = "scan-all" /\ InConfPass /\ InRejPass') =>
            /\ pc = "conf_done"
            /\ pc' = "rej_search"
            /\ df' = df
       /\ (mode = "scan-all" /\ InSync /\ files' # files) =>
            /\ pc = "rej_done"
            /\ pc' = "idle"
            /\ files' = [files EXCEPT ![JOBS_CSV] = ToCsv(df)]
       /\ (mode = "scan-all" /\ RejectionEvent) =>
            \A i \in InsertedThisRun(df) :
                df.rows[i]["role_title"] = Subject(messages[m]) =>
                    /\ Len(df'.rows) = Len(df.rows)
                    /\ df'.rows[i]["status"] = Rejected
                    /\ df'.rows[i]["job_text"] =
                          df.rows[i]["job_text"] \o REJECTION_SEP
                             \o messages[m].snippet]_vars

\* C18 witness: the first rejection of a both-passes run has marked a record
\* that the confirmation pass of the same run had inserted.
C18_Witness ==
    /\ mode = "scan-all"
    /\ pc = "rej_loop"
    /\ m = 2
    /\ \E i \in InsertedThisRun(df) :
          /\ df.rows[i]["role_title"] = Subject(messages[1])
          /\ df.rows[i]["status"] = Rejected
          /\ messages[1].snippet # <<>>
          /\ Len(df.rows[i]["job_text"]) >= 2
          /\ SubSeq(df.rows[i]["job_text"], Len(df.rows[i]["job_text"]) - 1,
                    Len(df.rows[i]["job_text"]))
                = REJECTION_SEP \o messages[1].snippet

\* No two rows hold the same (role_title, applied_date) pair.
UniqueKeys(rows) ==
    \A i, j \in 1..Len(rows) :
        (i # j) => ~(/\ Text(rows[i]["role_title"]) = Text(rows[j]["role_title"])
                     /\ Text(rows[i]["applied_date"])
                           = Text(rows[j]["applied_date"]))

\* C19: the uniqueness of the de-duplication key is preserved within a run.
\* If no two records of the ledger the run loaded share a (role_title,
\* applied_date) pair, then at every point of the run no two records of the
\* ledger share one.
C19_KeyUniquenessPreserved ==
    (InSync /\ UniqueKeys(files[JOBS_CSV].rows)) => UniqueKeys(df.rows)

\* The step that processes row idx of the backfill pass.
BackfillEvent == pc = "backfill" /\ idx <= Len(df.rows) /\ pc' = "backfill"

\* Columns of row i that the step changes.
Written(i) == {c \in DOMAIN df.rows[i] : df'.rows[i][c] # df.rows[i][c]}

\* C20: each operation's frame.  A confirmation changes no field of an
\* existing record; a rejection changes only status and job_text, and only of
\* records whose role_title is the event's subject; a backfill step changes
\* only summary, skills and salary, and only of the record it called the
\* summarizer for; no other step of a command changes the frame; and no step
\* writes job_link, company, role_title or applied_date of an existing
\* record.
C20_OperationFrames ==
    [][(pc # "idle" /\ pc' # "idle") =>
          /\ \A i \in Rows(df) :
                /\ i \in Rows(df')
                /\ DOMAIN df'.rows[i] = DOMAIN df.rows[i]
                /\ Written(i) \cap {"job_link", "company", "role_title",
                                    "applied_date"} = {}
          /\ ConfirmationEvent => \A i \in Rows(df) : Written(i) = {}
          /\ RejectionEvent =>
                \A i \in Rows(df) :
                    /\ Written(i) \subseteq {"status", "job_text"}
                    /\ Written(i) # {} =>
                          df.rows[i]["role_title"] = Subject(messages[m])
          /\ BackfillEvent =>
                \A i \in Rows(df) :
                    /\ Written(i) \subseteq {"summary", "skills", "salary"}
                    /\ Written(i) # {} => (i = idx /\ calls' = calls + 1)
          /\ ~(ConfirmationEvent \/ RejectionEvent \/ BackfillEvent) =>
                df' = df]_vars

\* C20 witness: a backfill pass has enriched a record of a ledger in which a
\* confirmation had inserted a record and a rejection had marked another.
C20_Witness ==
    /\ pc = "backfill"
    /\ updated >= 1
    /\ \E i \in Rows(df) :
          /\ df.rows[i]["status"] = Applied
          /\ df.rows[i]["job_text"] = <<"not moving forward">>
    /\ \E i \in Rows(df) :
          /\ df.rows[i]["status"] = Rejected
          /\ \E k \in 1..Len(Text(df.rows[i]["job_text"])) :
                <<Text(df.rows[i]["job_text"])[k]>> = REJECTION_SEP

====
